---- MODULE Spec2Model ----
(***************************************************************************)
(* SwiftAuth: generateTotp (src/src/utils/generateTotp.js).                *)
(*                                                                         *)
(* A call of the async function runs lines 5-27 synchronously, suspends on *)
(* `await crypto.subtle.importKey`, resumes to call crypto.subtle.sign     *)
(* (line 29), suspends again, and resumes to run lines 31-39.  Several     *)
(* calls may be suspended at the same time while Date.now() advances.      *)
(*                                                                         *)
(* Strings are sequences of one-character strings, byte buffers are        *)
(* sequences of 0..255.  TLC's integers are 32-bit, so every 32-bit        *)
(* unsigned quantity of the code is kept as its four bytes.                *)
(***************************************************************************)
EXTENDS Integers, Sequences, FiniteSets, TLC

(***************************************************************************)
(* Bounds of the model.                                                    *)
(***************************************************************************)
\* Number of generateTotp calls that may be in flight together.
NumCalls == 2
\* Number of clock advances (of TickMs milliseconds each).
MaxTicks == 4
\* Largest `digits` of the formatting specification.
MaxDigits == 8

Calls == 1..NumCalls

(***************************************************************************)
(* Characters and strings.                                                 *)
(***************************************************************************)
Upper ==
    << "A", "B", "C", "D", "E", "F", "G", "H", "I", "J", "K", "L", "M",
       "N", "O", "P", "Q", "R", "S", "T", "U", "V", "W", "X", "Y", "Z" >>

Lower ==
    << "a", "b", "c", "d", "e", "f", "g", "h", "i", "j", "k", "l", "m",
       "n", "o", "p", "q", "r", "s", "t", "u", "v", "w", "x", "y", "z" >>

DecimalDigits == << "0", "1", "2", "3", "4", "5", "6", "7", "8", "9" >>

\* RFC 4648 base32 alphabet: character i+1 encodes the 5-bit value i.
Base32Alphabet == Upper \o << "2", "3", "4", "5", "6", "7" >>

Range(seq) == { seq[i] : i \in 1..Len(seq) }

IndexOf(seq, x) == CHOOSE i \in 1..Len(seq) : seq[i] = x

\* String.prototype.toUpperCase on the characters of the model.
toUpperCase(s) ==
    [ i \in 1..Len(s) |->
        IF s[i] \in Range(Lower) THEN Upper[IndexOf(Lower, s[i])] ELSE s[i] ]

\* '='.repeat(n)
repeatEq(n) == [ i \in 1..n |-> "=" ]

\* String(n) for an integer n >= 0: decimal, no leading zeros.
RECURSIVE NumberToString(_)
NumberToString(n) ==
    IF n < 10 THEN << DecimalDigits[n + 1] >>
    ELSE NumberToString(n \div 10) \o << DecimalDigits[(n % 10) + 1] >>

\* String.prototype.slice(start) with one argument: a negative start counts
\* from the end (clamped at the beginning), a start >= 0 from the beginning
\* (clamped at the end).  -0 is 0.
sliceFrom(str, start) ==
    LET len  == Len(str)
        from == IF start < 0
                THEN (IF len + start > 0 THEN len + start ELSE 0)
                ELSE (IF start < len THEN start ELSE len)
    IN  SubSeq(str, from + 1, len)

\* String.prototype.slice(0, end) for end >= 0.
sliceTo(str, end) == SubSeq(str, 1, IF end < Len(str) THEN end ELSE Len(str))

(***************************************************************************)
(* Lines 5-12: the clock reading, the counter and its 8-byte buffer.       *)
(***************************************************************************)
\* parseInt(Date.now() / 1000): the whole seconds of a millisecond clock.
UnixTimestamp(nowMs) == nowMs \div 1000

\* Math.ceil in place of Math.floor.
TimeCeil(ts, period) ==
    IF period > 0 THEN [kind |-> "finite", n |-> (ts + period - 1) \div period]
    ELSE [kind |-> "NaN", n |-> 0]

\* Math.floor(unixTimestamp / period) for unixTimestamp >= 0.  Division by
\* zero yields Infinity (NaN for 0/0), a negative period a negative floor.
Time(ts, period) ==
    IF period > 0 THEN [kind |-> "finite", n |-> ts \div period]
    ELSE IF period < 0
         THEN [kind |-> "finite", n |-> 0 - ((ts + (0 - period) - 1) \div (0 - period))]
    ELSE IF ts = 0 THEN [kind |-> "NaN", n |-> 0]
    ELSE [kind |-> "Infinity", n |-> 0]

\* The four big-endian bytes of n, 0 <= n < 2^31.
BytesBE(n) ==
    << n \div 16777216, (n \div 65536) % 256, (n \div 256) % 256, n % 256 >>

\* ToUint32 of the counter as four big-endian bytes: NaN and Infinity become
\* 0, a negative integer n becomes 2^32 + n (the complement of -n - 1).
Uint32Bytes(time) ==
    IF time.kind # "finite" THEN << 0, 0, 0, 0 >>
    ELSE IF time.n >= 0 THEN BytesBE(time.n)
    ELSE LET m == BytesBE((0 - time.n) - 1)
         IN  << 255 - m[1], 255 - m[2], 255 - m[3], 255 - m[4] >>

\* new ArrayBuffer(8) is zero-filled; setUint32(4, time, false) writes bytes
\* 4..7.
TimeBuffer(time) == << 0, 0, 0, 0 >> \o Uint32Bytes(time)

(***************************************************************************)
(* Lines 14-24: the secret.                                                *)
(***************************************************************************)
\* The padding step of lines 18-22.
PadSecret(s) ==
    IF Len(s) % 8 # 0 THEN s \o repeatEq(8 - (Len(s) % 8)) ELSE s

\* Normalisation that also drops every character outside the alphabet.
NormalizedSecretStrip(secret) ==
    PadSecret(SelectSeq(toUpperCase(secret),
                        LAMBDA ch : ch \in Range(Base32Alphabet)))

\* Normalisation without the toUpperCase of line 15.
NormalizedSecretNoUpper(secret) == PadSecret(secret)

\* Lines 15-22: uppercase, then pad with '=' to a multiple of 8.
NormalizedSecret(secret) == PadSecret(toUpperCase(secret))

\* The characters before the first '='.
DataPart(s) ==
    IF \E i \in 1..Len(s) : s[i] = "="
    THEN SubSeq(s, 1, (CHOOSE i \in 1..Len(s) :
                          s[i] = "=" /\ \A j \in 1..(i - 1) : s[j] # "=") - 1)
    ELSE s

Pow2(k) == CASE k = 0 -> 1 [] k = 1 -> 2 [] k = 2 -> 4 [] k = 3 -> 8
             [] k = 4 -> 16 [] k = 5 -> 32 [] k = 6 -> 64 [] k = 7 -> 128

\* 5-bit groups to bytes, most significant bit first: acc holds the nbits
\* (< 8) bits not yet emitted; left-over bits at the end are dropped.
RECURSIVE Base32Bytes(_, _, _)
Base32Bytes(data, acc, nbits) ==
    IF data = << >> THEN << >>
    ELSE LET a == acc * 32 + (IndexOf(Base32Alphabet, Head(data)) - 1)
             n == nbits + 5
         IN  IF n >= 8
             THEN << a \div Pow2(n - 8) >>
                  \o Base32Bytes(Tail(data), a % Pow2(n - 8), n - 8)
             ELSE Base32Bytes(Tail(data), a, n)

\* decodeBase32 of @std/encoding/base32 (spec 4.1): the input is rejected
\* when its length is no multiple of 8 or a character is outside A-Z, 2-7
\* and '='; otherwise the characters before the padding are decoded, and
\* padding produces no bytes.
decodeBase32(b32) ==
    IF Len(b32) % 8 # 0
       \/ \E i \in 1..Len(b32) : b32[i] \notin (Range(Base32Alphabet) \cup {"="})
    THEN [ok |-> FALSE, bytes |-> << >>]
    ELSE [ok |-> TRUE, bytes |-> Base32Bytes(DataPart(b32), 0, 0)]

(***************************************************************************)
(* Lines 26-29: the keyed hash (WebCrypto).                                *)
(***************************************************************************)
\* The hash variants crypto.subtle accepts for HMAC.
SupportedHashes == { "SHA-1", "SHA-256" }

\* Digest length in bytes of each variant.
DigestLength(hash) == IF hash = "SHA-1" THEN 20 ELSE 32

\* The hash named in the importKey call of line 27: the literal 'SHA-1',
\* whatever `algorithm` is.
ImportHash(algorithm) == "SHA-1"

RECURSIVE Mix(_, _)
Mix(bytes, acc) ==
    IF bytes = << >> THEN acc
    ELSE Mix(Tail(bytes), (acc * 31 + Head(bytes) + 7) % 65521)

\* HMAC as a deterministic function of (variant, key, message): an abstract
\* stand-in for the digest, of the variant's length, that depends on all
\* three.
HmacDigest(hash, keyBytes, message) ==
    LET seed == Mix(message, Mix(keyBytes, DigestLength(hash)))
    IN  [ i \in 1..DigestLength(hash) |->
            (seed * (2 * i + 1) + 13 * i * i + (seed \div 256)) % 256 ]

NoCryptoKey == [hash |-> "", key |-> << >>]

\* crypto.subtle.importKey('raw', key, {name: 'HMAC', hash}, false, ['sign']):
\* the promise rejects for an unknown hash (NotSupportedError) and for a
\* zero-length key (DataError), else resolves to the CryptoKey.
importKey(keyBytes, hash) ==
    IF hash \notin SupportedHashes
    THEN [ok |-> FALSE, error |-> "NotSupportedError", cryptoKey |-> NoCryptoKey]
    ELSE IF Len(keyBytes) = 0
    THEN [ok |-> FALSE, error |-> "DataError", cryptoKey |-> NoCryptoKey]
    ELSE [ok |-> TRUE, error |-> "",
          cryptoKey |-> [hash |-> hash, key |-> keyBytes]]

\* crypto.subtle.sign('HMAC', cryptoKey, data)
sign(ck, data) == HmacDigest(ck.hash, ck.key, data)

(***************************************************************************)
(* Lines 31-39: dynamic truncation and formatting.                         *)
(***************************************************************************)
\* The high four bits of the last byte in place of the low four.
OffsetHighNibble(hmacResult) == hmacResult[Len(hmacResult)] \div 16

\* hmacView.getUint8(hmacView.byteLength - 1) & 0xf
Offset(hmacResult) == hmacResult[Len(hmacResult)] % 16

\* hmacView.getUint32(offset) & 0x7fffffff, >>> 0: the four bytes at offset
\* read big-endian with the top bit cleared (bytes are indexed from 1 here).
Truncated(hmacResult) ==
    LET o == Offset(hmacResult)
    IN  (hmacResult[o + 1] % 128) * 16777216 + hmacResult[o + 2] * 65536
        + hmacResult[o + 3] * 256 + hmacResult[o + 4]

\* ... % 1000000
Binary(hmacResult) == Truncated(hmacResult) % 1000000

\* slice(0, digits) in place of slice(-1 * digits).
OtpSliceLeft(binary, digits) ==
    sliceTo(<< "0", "0", "0", "0", "0", "0" >> \o NumberToString(binary),
            IF digits > 0 THEN digits ELSE 0)

\* ('000000' + binary).slice(-1 * digits)
Otp(binary, digits) ==
    sliceFrom(<< "0", "0", "0", "0", "0", "0" >> \o NumberToString(binary),
              0 - digits)

(***************************************************************************)
(* State.                                                                  *)
(***************************************************************************)
VARIABLES
    now,            \* Date.now(): the wall clock, in milliseconds
    ticks,          \* clock advances so far
    pc,             \* per call: "idle", "await_importKey", "await_sign", "done"
    req,            \* per call: the argument { algorithm, secret, digits, period }
    unixTimestamp,  \* per call: line 5
    time,           \* per call: line 7
    timeBuffer,     \* per call: lines 10-12
    key,            \* per call: line 24
    cryptoKey,      \* per call: line 27
    hmacResult,     \* per call: line 29
    outcome,        \* per call: the promise's settlement
    clockReads      \* per call: number of Date.now() evaluations

\* The counter of lines 5-12 over the whole range of Date.now(), and the
\* DarkModeManager of each window with the storage the windows share.
VARIABLES
    wide,           \* lines 5-12 on 64-bit values: pc, unixTimestamp, period,
                    \* time, timeBuffer
    dm,             \* per window: the DarkModeManager and its document
    store,          \* document.cookie, localStorage and the system scheme
    lastOp,         \* the handler run last: its window, and how many
                    \* setTheme calls it had accepted and dropped
    everAccepted    \* some setTheme call has been accepted

sideVars == << wide, dm, store, lastOp, everAccepted >>

vars ==
    << now, ticks, pc, req, unixTimestamp, time, timeBuffer, key, cryptoKey,
       hmacResult, outcome, clockReads, wide, dm, store, lastOp, everAccepted >>

\* A 64-bit natural as four 16-bit limbs, most significant first.
WideZero == << 0, 0, 0, 0 >>

NoWide ==
    [pc |-> "idle", unixTimestamp |-> WideZero, period |-> 1,
     time |-> WideZero, timeBuffer |-> << >>]

\* The windows: a top-level page and a same-origin frame inside it.
Windows == { "top", "frame" }

\* What a registered listener does when it is called: call toggle() from
\* inside the callback, or throw.
ListenerKinds == { "reenter", "throws" }

\* A window whose script has not run yet.
NoManager ==
    [loaded |-> FALSE, dark |-> FALSE, isTransitioning |-> FALSE,
     timers |-> 0, metaThemeColor |-> "", toggleIcon |-> "",
     styles |-> "none", listeners |-> << >>, storageEvent |-> FALSE,
     message |-> FALSE, mediaEvent |-> FALSE]

\* A fresh browser profile: no darkMode cookie, no localStorage theme.
NoStore ==
    [cookie |-> "none", theme |-> "none", systemPrefersDark |-> FALSE,
     writable |-> TRUE]

NoCalls == [k \in ListenerKinds |-> 0]

\* No handler has run yet.
NoOp == [w |-> "", accepted |-> 0, dropped |-> 0]

\* Nothing of the counter specification or of the dark mode utility runs.
SideIdle ==
    /\ wide = NoWide
    /\ dm = [w \in Windows |-> NoManager]
    /\ store = NoStore
    /\ lastOp = NoOp
    /\ everAccepted = FALSE

\* First clock value of a run and the step of the clock, in milliseconds.
StartNow == 59000
TickMs == 500

NoRequest == [algorithm |-> "", secret |-> << >>, digits |-> 0, period |-> 0]
NoTime == [kind |-> "NaN", n |-> 0]
Pending == [kind |-> "pending", otp |-> << >>]
Rejected(error) == [kind |-> error, otp |-> << >>]
Fulfilled(otp) == [kind |-> "ok", otp |-> otp]

(***************************************************************************)
(* Inputs.                                                                 *)
(***************************************************************************)
Algorithms == { "SHA-1", "SHA-256", "MD5" }

SeqSecrets ==
    { << >>,
      << "=", "=", "=", "=", "=", "=", "=", "=" >>,
      << "M", "Y" >>,
      << "m", "y" >>,
      << "1" >>,
      << "M", "-", "Y" >>,
      << "M", "Z", "X", "W", "6", "Y", "T", "B" >>,
      << "m", "z", "x", "w", "6", "y", "t", "1" >> }

SeqRequests ==
    [ algorithm : Algorithms, secret : SeqSecrets,
      digits : { -1, 0, 1, 6, 8 }, period : { -30, 0, 1, 30 } ]

ConcRequests ==
    { [algorithm |-> "SHA-1", secret |-> << "M", "Y" >>, digits |-> 6, period |-> 30],
      [algorithm |-> "SHA-1", secret |-> << "m", "y" >>, digits |-> 6, period |-> 30],
      [algorithm |-> "SHA-1", secret |-> << "M", "y" >>, digits |-> 6, period |-> 2],
      [algorithm |-> "SHA-1", secret |-> << "m", "1" >>, digits |-> 6, period |-> 2],
      [algorithm |-> "SHA-1", secret |-> << "M", "1" >>, digits |-> 6, period |-> 2] }

(***************************************************************************)
(* Operations.                                                             *)
(***************************************************************************)
\* No call of generateTotp has been made.
TotpIdle ==
    /\ now = StartNow
    /\ ticks = 0
    /\ pc = [c \in Calls |-> "idle"]
    /\ req = [c \in Calls |-> NoRequest]
    /\ unixTimestamp = [c \in Calls |-> 0]
    /\ time = [c \in Calls |-> NoTime]
    /\ timeBuffer = [c \in Calls |-> << >>]
    /\ key = [c \in Calls |-> << >>]
    /\ cryptoKey = [c \in Calls |-> NoCryptoKey]
    /\ hmacResult = [c \in Calls |-> << >>]
    /\ outcome = [c \in Calls |-> Pending]
    /\ clockReads = [c \in Calls |-> 0]

totpVars ==
    << now, ticks, pc, req, unixTimestamp, time, timeBuffer, key, cryptoKey,
       hmacResult, outcome, clockReads >>

Init ==
    /\ TotpIdle
    /\ SideIdle

\* The wall clock advances; no call's state changes.
Tick ==
    /\ ticks < MaxTicks
    /\ ticks' = ticks + 1
    /\ now' = now + TickMs
    /\ UNCHANGED << pc, req, unixTimestamp, time, timeBuffer, key, cryptoKey,
                    hmacResult, outcome, clockReads >>
    /\ UNCHANGED sideVars

\* generateTotp(r), lines 4-27: everything up to the first await.  A throw
\* of decodeBase32 rejects the returned promise at once.
Call(c, r) ==
    /\ pc[c] = "idle"
    /\ LET ts  == UnixTimestamp(now)
           t   == Time(ts, r.period)
           dec == decodeBase32(NormalizedSecret(r.secret))
       IN  /\ req' = [req EXCEPT ![c] = r]
           /\ clockReads' = [clockReads EXCEPT ![c] = @ + 1]
           /\ unixTimestamp' = [unixTimestamp EXCEPT ![c] = ts]
           /\ time' = [time EXCEPT ![c] = t]
           /\ timeBuffer' = [timeBuffer EXCEPT ![c] = TimeBuffer(t)]
           /\ IF dec.ok
              THEN /\ key' = [key EXCEPT ![c] = dec.bytes]
                   /\ pc' = [pc EXCEPT ![c] = "await_importKey"]
                   /\ UNCHANGED outcome
              ELSE /\ outcome' = [outcome EXCEPT ![c] = Rejected("DecodeError")]
                   /\ pc' = [pc EXCEPT ![c] = "done"]
                   /\ UNCHANGED key
    /\ UNCHANGED << now, ticks, cryptoKey, hmacResult >>
    /\ UNCHANGED sideVars

\* The message of the sign call, built from the clock at the time of the
\* sign call instead of the buffer of lines 10-12.
SignMessageLate(c) == TimeBuffer(Time(UnixTimestamp(now), req[c].period))

\* The message of the sign call of line 29: the call's own timeBuffer.
SignMessage(c) == timeBuffer[c]

\* The importKey promise settles (line 27); on success the call goes on to
\* crypto.subtle.sign (line 29) and suspends again.
ImportKeyResolved(c) ==
    /\ pc[c] = "await_importKey"
    /\ LET res == importKey(key[c], ImportHash(req[c].algorithm))
       IN  IF res.ok
           THEN /\ cryptoKey' = [cryptoKey EXCEPT ![c] = res.cryptoKey]
                /\ pc' = [pc EXCEPT ![c] = "await_sign"]
                /\ UNCHANGED outcome
           ELSE /\ outcome' = [outcome EXCEPT ![c] = Rejected(res.error)]
                /\ pc' = [pc EXCEPT ![c] = "done"]
                /\ UNCHANGED cryptoKey
    /\ UNCHANGED << now, ticks, req, unixTimestamp, time, timeBuffer, key,
                    hmacResult, clockReads >>
    /\ UNCHANGED sideVars

\* The sign promise fulfils with `digest` (line 29); lines 31-39 run and the
\* call returns.  getUint32 throws a RangeError when the four bytes at the
\* offset do not lie inside the digest.
SignResolved(c, digest) ==
    /\ pc[c] = "await_sign"
    /\ hmacResult' = [hmacResult EXCEPT ![c] = digest]
    /\ outcome' = [outcome EXCEPT ![c] =
                      IF Offset(digest) + 4 <= Len(digest)
                      THEN Fulfilled(Otp(Binary(digest), req[c].digits))
                      ELSE Rejected("RangeError")]
    /\ pc' = [pc EXCEPT ![c] = "done"]
    /\ UNCHANGED << now, ticks, req, unixTimestamp, time, timeBuffer, key,
                    cryptoKey, clockReads >>
    /\ UNCHANGED sideVars

\* generateTotp run alone, as a function of its argument and of the clock
\* reading of line 5 (lines 4-40 end to end).
generateTotp(r, ts) ==
    LET dec == decodeBase32(NormalizedSecret(r.secret))
    IN  IF ~dec.ok THEN Rejected("DecodeError")
        ELSE LET imp == importKey(dec.bytes, ImportHash(r.algorithm))
             IN  IF ~imp.ok THEN Rejected(imp.error)
                 ELSE LET digest == sign(imp.cryptoKey,
                                         TimeBuffer(Time(ts, r.period)))
                      IN  IF Offset(digest) + 4 <= Len(digest)
                          THEN Fulfilled(Otp(Binary(digest), r.digits))
                          ELSE Rejected("RangeError")

\* Concurrent calls.
Next ==
    \/ Tick
    \/ \E c \in Calls, r \in ConcRequests : Call(c, r)
    \/ \E c \in Calls : ImportKeyResolved(c)
    \/ \E c \in Calls : SignResolved(c, sign(cryptoKey[c], SignMessage(c)))

Spec == Init /\ [][Next]_vars

\* One call, over the whole input space.
NextSeq ==
    \/ Tick
    \/ \E r \in SeqRequests : Call(1, r)
    \/ ImportKeyResolved(1)
    \/ SignResolved(1, sign(cryptoKey[1], SignMessage(1)))

SpecSeq == Init /\ [][NextSeq]_vars

(***************************************************************************)
(* Truncation and formatting over arbitrary digests: the run starts with   *)
(* call 1 suspended on the sign of line 29, and the digest the keyed hash  *)
(* delivers is any 20-byte value.                                          *)
(***************************************************************************)
FmtSecret == << "M", "Z", "X", "W", "6", "Y", "T", "B" >>

FmtRequest(d) ==
    [algorithm |-> "SHA-1", secret |-> FmtSecret, digits |-> d, period |-> 30]

\* Truncated values: small ones, the powers of ten around 10^6, the maximum.
FmtValues ==
    { 0, 5, 9, 10, 42, 99999, 100000, 999999, 1000000, 1000005, 1000010,
      7654321, 123456789, 2000000000, 2147483647 }

\* A 20-byte digest whose dynamic truncation reads the value p at offset
\* off; hi is the top bit of the 32-bit word read there.
FmtDigest(p, off, hi) ==
    [ i \in 1..20 |->
        IF i = 20 THEN 160 + off
        ELSE IF i = off + 1 THEN BytesBE(p)[1] + (IF hi THEN 128 ELSE 0)
        ELSE IF i \in (off + 2)..(off + 4) THEN BytesBE(p)[i - off]
        ELSE 170 ]

FmtDigests ==
    { FmtDigest(p, off, hi) : p \in FmtValues, off \in { 0, 7, 15 }, hi \in BOOLEAN }

InitFmt ==
    /\ now = StartNow
    /\ ticks = 0
    /\ SideIdle
    /\ \E d \in 1..MaxDigits :
         LET r  == FmtRequest(d)
             ts == UnixTimestamp(StartNow)
             k  == decodeBase32(NormalizedSecret(r.secret)).bytes
             up(f, v) == [f EXCEPT ![1] = v]
         IN  /\ pc = up([c \in Calls |-> "idle"], "await_sign")
             /\ req = up([c \in Calls |-> NoRequest], r)
             /\ unixTimestamp = up([c \in Calls |-> 0], ts)
             /\ time = up([c \in Calls |-> NoTime], Time(ts, r.period))
             /\ timeBuffer = up([c \in Calls |-> << >>],
                                TimeBuffer(Time(ts, r.period)))
             /\ key = up([c \in Calls |-> << >>], k)
             /\ cryptoKey = up([c \in Calls |-> NoCryptoKey],
                               importKey(k, ImportHash(r.algorithm)).cryptoKey)
             /\ hmacResult = [c \in Calls |-> << >>]
             /\ outcome = [c \in Calls |-> Pending]
             /\ clockReads = up([c \in Calls |-> 0], 1)

NextFmt == \E digest \in FmtDigests : SignResolved(1, digest)

SpecFmt == InitFmt /\ [][NextFmt]_vars

(***************************************************************************)
(* Properties.                                                             *)
(***************************************************************************)
Returned(c) == pc[c] = "done" /\ outcome[c].kind = "ok"

\* The secret itself was refused (by the decoder or by the key import).
SecretRefused(c) == outcome[c].kind \in { "DecodeError", "DataError" }

\* The call's digits and period are positive, as the interface requires.
PositiveNumbers(c) == req[c].digits >= 1 /\ req[c].period >= 1

\* C1: a call with a positive `digits` (also above 6) returns a string of
\* exactly `digits` characters, all of them decimal digits, whatever the
\* digest.
C1_OtpLengthIsDigits ==
    \A c \in Calls :
        (Returned(c) /\ req[c].digits >= 1) =>
            /\ Len(outcome[c].otp) = req[c].digits
            /\ \A i \in 1..Len(outcome[c].otp) :
                   outcome[c].otp[i] \in Range(DecimalDigits)

\* C2: a call with digits <= 0 or period <= 0 never returns an OTP: unless
\* the secret itself is refused first, it ends in InvalidParameterError
\* (stated for the calls that name a supported algorithm).
C2_InvalidParameterRejected ==
    \A c \in Calls :
        (pc[c] = "done" /\ (req[c].digits <= 0 \/ req[c].period <= 0)
         /\ req[c].algorithm \in SupportedHashes /\ ~SecretRefused(c)) =>
            outcome[c].kind = "InvalidParameterError"

\* C3: a call (with positive digits and period) whose algorithm is no
\* supported hash variant never returns an OTP: unless the secret itself is
\* refused first, it ends in the unsupported-algorithm error (the key
\* import's NotSupportedError).
C3_UnsupportedAlgorithmRejected ==
    \A c \in Calls :
        (pc[c] = "done" /\ req[c].algorithm \notin SupportedHashes
         /\ PositiveNumbers(c) /\ ~SecretRefused(c)) =>
            outcome[c].kind = "NotSupportedError"

\* C4: for a supported algorithm a (and positive digits and period), the
\* digest that is truncated is the HMAC under variant a of the decoded
\* secret and the 8-byte counter.
C4_DigestUsesRequestedAlgorithm ==
    \A c \in Calls :
        (Returned(c) /\ req[c].algorithm \in SupportedHashes
         /\ PositiveNumbers(c)) =>
            hmacResult[c] = HmacDigest(req[c].algorithm, key[c], timeBuffer[c])

\* A character outside A-Z, 2-7 and '='.
OutsideAlphabet(ch) ==
    /\ ch # "="
    /\ \A i \in 1..Len(Base32Alphabet) : Base32Alphabet[i] # ch

HasOutsideCharacter(s) == \E i \in 1..Len(s) : OutsideAlphabet(s[i])

\* C5: a call whose uppercased secret holds a character outside A-Z, 2-7
\* and '=' is rejected with the decode error as soon as it is made: no key
\* is produced, no key import and no sign ever happen, and no OTP comes out.
C5_BadCharacterFailsBeforeHash ==
    \A c \in Calls :
        (pc[c] # "idle" /\ HasOutsideCharacter(toUpperCase(req[c].secret))) =>
            /\ pc[c] = "done"
            /\ outcome[c] = Rejected("DecodeError")
            /\ key[c] = << >>
            /\ cryptoKey[c] = NoCryptoKey
            /\ hmacResult[c] = << >>

\* C5 witness: a full-length secret with one bad character was rejected.
C5_Witness ==
    /\ pc[1] = "done"
    /\ req[1].secret = << "m", "z", "x", "w", "6", "y", "t", "1" >>
    /\ outcome[1].kind = "DecodeError"

\* The secret is empty or consists of '=' only.
OnlyPadding(s) == \A i \in 1..Len(s) : s[i] = "="

\* C6: in a call with a supported algorithm and positive digits and period,
\* a secret that decodes to zero bytes (empty, or '=' only) is rejected
\* with DecodeError, and the key handed to the key import is never empty.
C6_EmptyKeyRejected ==
    \A c \in Calls :
        (req[c].algorithm \in SupportedHashes /\ PositiveNumbers(c)) =>
            /\ (pc[c] # "idle" /\ OnlyPadding(req[c].secret)) =>
                   (pc[c] = "done" /\ outcome[c].kind = "DecodeError")
            /\ (pc[c] \in { "await_importKey", "await_sign" }) => key[c] # << >>

\* C7: for a positive period the counter of a call is the index of the
\* period bucket of its clock reading; two calls with the same period whose
\* readings t1 < t2 lie in one bucket have equal counters, the counter never
\* decreases, and from the last second of a bucket to the first second of
\* the next it grows by exactly 1.
C7_CounterFollowsClock ==
    \A c \in Calls :
        (pc[c] # "idle" /\ req[c].period > 0) =>
            /\ time[c].kind = "finite"
            /\ req[c].period * time[c].n <= unixTimestamp[c]
            /\ unixTimestamp[c] < req[c].period * (time[c].n + 1)
            /\ \A d \in Calls :
                 (pc[d] # "idle" /\ req[d].period = req[c].period
                  /\ unixTimestamp[c] < unixTimestamp[d]) =>
                     LET p  == req[c].period
                         t1 == unixTimestamp[c]
                         t2 == unixTimestamp[d]
                     IN  /\ time[c].n <= time[d].n
                         /\ (\E k \in 0..t2 : k * p <= t1 /\ t2 < (k + 1) * p)
                                => time[d].n = time[c].n
                         /\ (t2 = t1 + 1) => time[d].n <= time[c].n + 1
                         /\ (t2 = t1 + 1 /\ \E k \in 0..t2 : t2 = k * p)
                                => time[d].n = time[c].n + 1

\* C7 witness: call 1 read the last second of a 30 s bucket, call 2 the
\* first second of the next, and the counter went up by one.
C7_Witness ==
    /\ pc[1] # "idle" /\ pc[2] # "idle"
    /\ req[1].period = 30 /\ req[2].period = 30
    /\ unixTimestamp[1] = 59 /\ unixTimestamp[2] = 60
    /\ time[1].n = 1 /\ time[2].n = 2

\* C8: under every interleaving of concurrent calls and clock advances, a
\* call reads the clock exactly once, when it is made; while it is
\* suspended its counter buffer and key stay what it computed from its own
\* argument and reading, its digest is the keyed hash of its own key and
\* buffer, and what it returns is what the same call returns when run alone
\* with that reading.
C8_CallsAreIndependent ==
    \A c \in Calls :
        /\ clockReads[c] = (IF pc[c] = "idle" THEN 0 ELSE 1)
        /\ pc[c] # "idle" =>
               /\ unixTimestamp[c] <= UnixTimestamp(now)
               /\ timeBuffer[c]
                     = TimeBuffer(Time(unixTimestamp[c], req[c].period))
        /\ pc[c] \in { "await_importKey", "await_sign" } =>
               key[c] = decodeBase32(NormalizedSecret(req[c].secret)).bytes
        /\ (pc[c] = "await_sign" \/ Returned(c)) => cryptoKey[c].key = key[c]
        /\ Returned(c) => hmacResult[c] = sign(cryptoKey[c], timeBuffer[c])
        /\ pc[c] = "done" =>
               outcome[c] = generateTotp(req[c], unixTimestamp[c])

\* C8 witness: call 1 was made after call 2 had read the clock, in a later
\* period, and returned its OTP while call 2 was still suspended on sign.
C8_Witness ==
    /\ pc[2] = "await_sign"
    /\ Returned(1)
    /\ unixTimestamp[1] > unixTimestamp[2]
    /\ time[1] # time[2]
    /\ outcome[1].otp # generateTotp(req[1], unixTimestamp[2]).otp

\* Two strings that differ at most in the case of their letters.
SameModuloCase(s1, s2) ==
    /\ Len(s1) = Len(s2)
    /\ \A i \in 1..Len(s1) :
           \/ s1[i] = s2[i]
           \/ \E j \in 1..Len(Upper) : { s1[i], s2[i] } = { Upper[j], Lower[j] }

\* C9: two calls whose secrets differ only in letter case, with the same
\* algorithm, digits, period and clock reading, decode to the same key and
\* end in the same outcome.
C9_SecretCaseInsensitive ==
    \A c, d \in Calls :
        (/\ pc[c] # "idle" /\ pc[d] # "idle"
         /\ SameModuloCase(req[c].secret, req[d].secret)
         /\ req[c].algorithm = req[d].algorithm
         /\ req[c].digits = req[d].digits
         /\ req[c].period = req[d].period
         /\ unixTimestamp[c] = unixTimestamp[d]) =>
            /\ key[c] = key[d]
            /\ (pc[c] = "done" /\ pc[d] = "done") => outcome[c] = outcome[d]

\* C9 witness: "MY" and "my" at the same clock reading returned one OTP.
C9_Witness ==
    /\ Returned(1) /\ Returned(2)
    /\ req[1].secret = << "M", "Y" >> /\ req[2].secret = << "m", "y" >>
    /\ unixTimestamp[1] = unixTimestamp[2]
    /\ key[1] = << 102 >>
    /\ outcome[1] = outcome[2]

Pow10(k) == CASE k = 0 -> 1 [] k = 1 -> 10 [] k = 2 -> 100 [] k = 3 -> 1000
              [] k = 4 -> 10000 [] k = 5 -> 100000 [] k = 6 -> 1000000

\* The HOTP value of RFC 4226 for 1 <= d <= 6: p mod 10^d in decimal,
\* left-padded with zeros to d characters.
StandardHotp(p, d) ==
    [ i \in 1..d |-> DecimalDigits[(((p % Pow10(d)) \div Pow10(d - i)) % 10) + 1] ]

\* C10: for digits in 1..6 and every truncated value P, the OTP returned is
\* the standard HOTP value: P mod 10^digits, zero-padded to `digits`.
C10_MatchesStandardUpToSix ==
    \A c \in Calls :
        (Returned(c) /\ req[c].digits \in 1..6) =>
            outcome[c].otp = StandardHotp(Truncated(hmacResult[c]), req[c].digits)

\* C10 witness: three digits of a value above 10^6 whose low digits need
\* zero padding.
C10_Witness ==
    /\ Returned(1)
    /\ req[1].digits = 3
    /\ Truncated(hmacResult[1]) = 1000005
    /\ outcome[1].otp = << "0", "0", "5" >>

\* C11: for digits above 6 the OTP is P mod 10^6 zero-extended on the left
\* to `digits` characters: it has `digits` characters, the last six are
\* P mod 10^6 zero-padded to six places, and all before them are '0'.
C11_ZeroExtendedToDigits ==
    \A c \in Calls :
        (Returned(c) /\ req[c].digits > 6) =>
            LET otp == outcome[c].otp
                n   == Len(otp)
            IN  /\ n = req[c].digits
                /\ SubSeq(otp, n - 5, n) = StandardHotp(Truncated(hmacResult[c]), 6)
                /\ \A i \in 1..(n - 6) : otp[i] = "0"

\* C12: for a digest of at least 20 bytes the offset is the low four bits of
\* the last byte, the four bytes read there lie inside the digest (the read
\* does not throw), and the truncated value is those four bytes big-endian
\* with the top bit cleared, a value in 0 .. 2^31 - 1; the OTP returned is
\* formatted from exactly that value.
C12_DynamicTruncation ==
    \A c \in Calls :
        (pc[c] = "done" /\ Len(hmacResult[c]) >= 20) =>
            LET d    == hmacResult[c]
                last == d[Len(d)]
                off  == last - 16 * (last \div 16)
                top  == IF d[off + 1] >= 128 THEN d[off + 1] - 128 ELSE d[off + 1]
            IN  /\ off \in 0..15
                /\ off + 4 <= Len(d)
                /\ outcome[c].kind = "ok"
                /\ Offset(d) = off
                /\ Truncated(d) \in 0..2147483647
                /\ BytesBE(Truncated(d)) = << top, d[off + 2], d[off + 3], d[off + 4] >>
                /\ \E p \in FmtValues, o \in 0..15, hi \in BOOLEAN :
                       /\ d = FmtDigest(p, o, hi)
                       /\ o = off
                       /\ outcome[c].otp = Otp(p % 1000000, req[c].digits)

\* C12 witness: the largest value, read at the last possible offset from a
\* word whose top bit is set.
C12_Witness ==
    /\ Returned(1)
    /\ hmacResult[1] = FmtDigest(2147483647, 15, TRUE)
    /\ hmacResult[1][16] = 255
    /\ outcome[1].otp = Otp(483647, req[1].digits)


(***************************************************************************)
(* Lines 5-12 over the whole range of the clock.  A JavaScript number      *)
(* holds every integer below 2^53 exactly and Date.now() stays below       *)
(* 8.64 * 10^15 ms, so the counter can exceed 2^32; such values are kept   *)
(* as four 16-bit limbs, most significant first.                           *)
(***************************************************************************)
Limb == 65536

\* Quotient and remainder of the wide value w by p, 0 < p < 2^15: the
\* Math.floor(unixTimestamp / period) of line 7 for a positive period.
WideDivRem(w, p) ==
    LET c1 == w[1]
        c2 == (c1 % p) * Limb + w[2]
        c3 == (c2 % p) * Limb + w[3]
        c4 == (c3 % p) * Limb + w[4]
    IN  [q |-> << c1 \div p, c2 \div p, c3 \div p, c4 \div p >>, r |-> c4 % p]

WideTime(ts, period) == WideDivRem(ts, period).q

\* The two big-endian bytes of one limb.
LimbBytes(l) == << l \div 256, l % 256 >>

\* setUint32(4, time, true): the low 32 bits written least significant
\* byte first.
WideTimeBufferLittleEndian(t) ==
    << 0, 0, 0, 0 >>
        \o << t[4] % 256, t[4] \div 256, t[3] % 256, t[3] \div 256 >>

\* Lines 10-12: a zero-filled ArrayBuffer(8); setUint32(4, time, false)
\* takes ToUint32(time), which is time modulo 2^32 (the two low limbs), and
\* writes it big-endian to bytes 4..7.  It never throws for a number.
WideTimeBuffer(t) == << 0, 0, 0, 0 >> \o LimbBytes(t[3]) \o LimbBytes(t[4])

\* Readings of parseInt(Date.now() / 1000) from 59 s up to the last instant
\* a Date can hold, on both sides of 2^31, 2^32 and 30 * 2^32.
WideClocks ==
    { << 0, 0, 0, 59 >>,         << 0, 0, 26000, 1 >>,
      << 0, 0, 32767, 65535 >>,  << 0, 0, 32768, 0 >>,
      << 0, 0, 62598, 22272 >>,  << 0, 0, 65535, 65535 >>,
      << 0, 1, 0, 0 >>,          << 0, 1, 0, 59 >>,
      << 0, 2, 0, 5 >>,          << 0, 29, 65535, 65535 >>,
      << 0, 30, 0, 0 >>,         << 0, 2011, 43041, 32768 >> }

WidePeriods == { 1, 2, 30, 60 }

InitCtr ==
    /\ TotpIdle
    /\ dm = [w \in Windows |-> NoManager]
    /\ store = NoStore
    /\ lastOp = NoOp
    /\ everAccepted = FALSE
    /\ \E ts \in WideClocks, p \in WidePeriods :
           wide = [pc |-> "read", unixTimestamp |-> ts, period |-> p,
                   time |-> WideZero, timeBuffer |-> << >>]

\* Line 7.
CountPeriods ==
    /\ wide.pc = "read"
    /\ wide' = [wide EXCEPT !.pc = "counted",
                            !.time = WideTime(wide.unixTimestamp, wide.period)]
    /\ UNCHANGED << totpVars, dm, store, lastOp, everAccepted >>

\* Lines 10-12.
EncodeCounter ==
    /\ wide.pc = "counted"
    /\ wide' = [wide EXCEPT !.pc = "encoded",
                            !.timeBuffer = WideTimeBuffer(wide.time)]
    /\ UNCHANGED << totpVars, dm, store, lastOp, everAccepted >>

NextCtr == CountPeriods \/ EncodeCounter

SpecCtr == InitCtr /\ [][NextCtr]_vars

\* The 64-bit big-endian encoding of a wide value.
Be64(t) == LimbBytes(t[1]) \o LimbBytes(t[2]) \o LimbBytes(t[3]) \o LimbBytes(t[4])

\* t * p + r as a wide value, for 0 <= r < p < 2^15.
WideMulAdd(t, p, r) ==
    LET m4 == t[4] * p + r
        m3 == t[3] * p + (m4 \div Limb)
        m2 == t[2] * p + (m3 \div Limb)
        m1 == t[1] * p + (m2 \div Limb)
    IN  << m1 % Limb, m2 % Limb, m3 % Limb, m4 % Limb >>

BelowTwoTo32(t) == t[1] = 0 /\ t[2] = 0

\* C13: for every non-negative counter the HMAC message has exactly 8 bytes,
\* the first four are zero and the last four are the counter's low 32 bits
\* big-endian; a counter below 2^32 is thus encoded as its 64-bit big-endian
\* value, and a counter of 2^32 or more is encoded modulo 2^32, not
\* rejected.  The counter is the floor of the clock reading over the period,
\* and for readings below 2^31 it is the message the calls of generateTotp
\* sign.
C13_CounterIsLow32BigEndian ==
    wide.pc = "encoded" =>
        LET t   == wide.time
            buf == wide.timeBuffer
            dr  == WideDivRem(wide.unixTimestamp, wide.period)
        IN  /\ dr.r \in 0..(wide.period - 1)
            /\ WideMulAdd(t, wide.period, dr.r) = wide.unixTimestamp
            /\ Len(buf) = 8
            /\ SubSeq(buf, 1, 4) = << 0, 0, 0, 0 >>
            /\ SubSeq(buf, 5, 8) = SubSeq(Be64(t), 5, 8)
            /\ BelowTwoTo32(t) => buf = Be64(t)
            /\ ~BelowTwoTo32(t) =>
                   /\ buf # Be64(t)
                   /\ buf = Be64(<< 0, 0, t[3], t[4] >>)
            /\ (BelowTwoTo32(wide.unixTimestamp) /\ wide.unixTimestamp[3] < 32768) =>
                   buf = TimeBuffer(Time(wide.unixTimestamp[3] * Limb
                                             + wide.unixTimestamp[4],
                                         wide.period))

\* The counter 2^32 + 59 has been encoded as 59.
C13_Witness ==
    /\ wide.pc = "encoded"
    /\ wide.time = << 0, 1, 0, 59 >>
    /\ wide.timeBuffer = << 0, 0, 0, 0, 0, 0, 0, 59 >>


(***************************************************************************)
(* The dark mode utility (DarkModeManager).  Every handler runs to         *)
(* completion; a handler is computed on a "run": the windows' managers and *)
(* documents, the shared storage, and what the run has done so far.        *)
(***************************************************************************)
MaxDepth == 4       \* nested calls explored inside one handler

Themes == { "dark", "light", "system" }

\* The top-level page has a meta theme-color element and a toggle button
\* and registers listeners; the framed page does none of it.
HasMeta(w) == w = "top"
HasToggle(w) == w = "top"
RegistersListeners(w) == w = "top"

\* window.parent of the frame is the top-level page; window.parent of the
\* top-level page is the page itself.
Parent(w) == "top"

\* Lines 190-202 with getCookie of lines 316-325.
getSavedTheme(st) ==
    IF st.cookie = "true" THEN "dark"
    ELSE IF st.cookie = "false" THEN "light"
    ELSE IF st.theme # "none" THEN st.theme
    ELSE "system"

\* The saved theme alone decides; the system scheme is not consulted.
shouldBeDarkIgnoringSystem(st) == getSavedTheme(st) = "dark"

\* Lines 31-33.
shouldBeDark(st) ==
    \/ getSavedTheme(st) = "dark"
    \/ getSavedTheme(st) = "system" /\ st.systemPrefersDark

\* Lines 186-188.
getCurrentTheme(d) == IF d.dark THEN "dark" ELSE "light"

\* A guard that lets every call through.
NeverTransitioning(d) == FALSE

\* Line 147.
Transitioning(d) == d.isTransitioning

\* An exception that leaves the forEach callback.
Uncaught(R) == R

\* Lines 260-264: the try/catch around each callback.
Caught(R) == [R EXCEPT !.thrown = FALSE]

\* The run a handler starts from.
StartRun ==
    [dm |-> dm, store |-> store, calls |-> NoCalls, accepted |-> 0,
     dropped |-> 0, dispatched |-> 0, posted |-> 0, thrown |-> FALSE,
     overflow |-> FALSE, fits |-> TRUE]

\* Lines 204-210.  The cookie is written first; localStorage.setItem throws
\* when the storage cannot be written (quota exceeded, private browsing),
\* otherwise it stores the theme and, if the value changed, queues a
\* "storage" event in every other loaded window.  A window holds one
\* undelivered event of a kind; a write that would queue a second one is
\* not explored (fits).
saveTheme(R, w, theme) ==
    LET R1      == [R EXCEPT !.store.cookie =
                                 IF theme = "dark" THEN "true" ELSE "false"]
        changed == R.store.theme # theme
        others  == { v \in Windows \ { w } : R.dm[v].loaded }
    IN  IF ~R.store.writable THEN [R1 EXCEPT !.thrown = TRUE]
        ELSE [R1 EXCEPT
                 !.store.theme = theme,
                 !.dm = [v \in Windows |->
                            IF changed /\ v \in others
                            THEN [R1.dm[v] EXCEPT !.storageEvent = TRUE]
                            ELSE R1.dm[v]],
                 !.fits = /\ R1.fits
                          /\ changed =>
                                 \A v \in others :
                                     ~R1.dm[v].storageEvent]

\* Lines 212-217.
updateMetaThemeColor(R, w, isDark) ==
    IF HasMeta(w)
    THEN [R EXCEPT !.dm[w].metaThemeColor =
                       IF isDark THEN "#1f2937" ELSE "#ffffff"]
    ELSE R

\* Lines 230-251.
updateAllToggles(R, w) ==
    IF HasToggle(w)
    THEN [R EXCEPT !.dm[w].toggleIcon =
                       IF getCurrentTheme(R.dm[w]) = "dark" THEN "sun" ELSE "moon"]
    ELSE R

RECURSIVE setTheme(_, _, _, _)
RECURSIVE applySavedTheme(_, _, _, _)
RECURSIVE notifyFrom(_, _, _, _, _, _)

\* Lines 180-184.
toggle(R, w, fuel) ==
    setTheme(R, w, IF getCurrentTheme(R.dm[w]) = "dark" THEN "light" ELSE "dark",
             fuel)

\* One listener called with the theme.
callback(R, w, kind, theme, fuel) ==
    LET R1 == [R EXCEPT !.calls[kind] = @ + 1]
    IN  IF kind = "reenter" THEN toggle(R1, w, fuel)
        ELSE [R1 EXCEPT !.thrown = TRUE]

\* Lines 259-265: forEach from position i of the listeners.
notifyFrom(R, w, L, i, theme, fuel) ==
    IF i > Len(L) \/ ~(L[i] \in Range(R.dm[w].listeners)) THEN R
    ELSE LET R1 == Caught(callback(R, w, L[i], theme, fuel))
         IN  IF R1.thrown \/ R1.overflow THEN R1
             ELSE notifyFrom(R1, w, L, i + 1, theme, fuel)

\* Lines 258-266.
notifyListeners(R, w, theme, fuel) ==
    notifyFrom(R, w, R.dm[w].listeners, 1, theme, fuel)

\* Lines 279-283, called by dispatchEvent or for a queued event: the key is
\* always "theme".
onStorage(R, w, fuel) == applySavedTheme(R, w, TRUE, fuel)

\* Lines 286-290 for a themeChanged message.
onMessage(R, w, fuel) == applySavedTheme(R, w, TRUE, fuel)

\* Lines 293-307: the StorageEvent is dispatched to the own window and
\* handled before dispatchEvent returns; a framed page posts a message to
\* its parent, which handles it later.
syncAcrossTabs(R, w, theme, fuel) ==
    LET R1 == onStorage([R EXCEPT !.dispatched = @ + 1], w, fuel)
        p  == Parent(w)
    IN  IF R1.overflow \/ p = w THEN R1
        ELSE [R1 EXCEPT !.posted = @ + 1,
                        !.dm[p].message = R1.dm[p].loaded,
                        !.fits = R1.fits /\ ~R1.dm[p].message]

\* Lines 146-178.
setTheme(R, w, theme, fuel) ==
    IF fuel = 0 THEN [R EXCEPT !.overflow = TRUE]
    ELSE IF Transitioning(R.dm[w]) THEN [R EXCEPT !.dropped = @ + 1]
    ELSE
        LET isDark == theme = "dark"
            R1 == [R EXCEPT !.dm[w].isTransitioning = TRUE,
                            !.dm[w].dark = isDark,
                            !.accepted = @ + 1]
            R2 == saveTheme(R1, w, theme)
        IN  IF R2.thrown THEN R2
            ELSE
                LET R3 == updateMetaThemeColor(R2, w, isDark)
                    R4 == updateAllToggles(R3, w)
                    R5 == notifyListeners(R4, w, theme, fuel - 1)
                IN  IF R5.thrown \/ R5.overflow THEN R5
                    ELSE
                        LET R6 == syncAcrossTabs(R5, w, theme, fuel - 1)
                        IN  IF R6.overflow THEN R6
                            ELSE [R6 EXCEPT !.dm[w].timers = @ + 1]

\* Lines 30-45.
applySavedTheme(R, w, withTransition, fuel) ==
    IF fuel = 0 THEN [R EXCEPT !.overflow = TRUE]
    ELSE IF withTransition /\ ~R.dm[w].isTransitioning
    THEN setTheme(R, w, IF shouldBeDark(R.store) THEN "dark" ELSE "light",
                  fuel - 1)
    ELSE [R EXCEPT !.dm[w].dark = shouldBeDark(R.store)]

\* Lines 270-274 for a change event e.
onSystemTheme(R, w, matches, fuel) ==
    IF getSavedTheme(R.store) = "system"
    THEN setTheme(R, w, IF matches THEN "dark" ELSE "light", fuel)
    ELSE R

\* Lines 5-28 and 355: the fields, applySavedTheme(false), the 50 ms timer
\* for the transition styles, and the three event listeners.
construct(R, w) ==
    applySavedTheme(
        [R EXCEPT !.dm[w] = [NoManager EXCEPT !.loaded = TRUE,
                                              !.styles = "pending"]],
        w, FALSE, MaxDepth)

\* A handler has run in window w and ended in R.
Ran(w, R) ==
    /\ R.fits
    /\ dm' = R.dm
    /\ store' = R.store
    /\ lastOp' = [w |-> w, accepted |-> R.accepted, dropped |-> R.dropped]
    /\ everAccepted' = (everAccepted \/ R.accepted > 0)
    /\ UNCHANGED << totpVars, wide >>

\* No page is loaded; the storage may or may not accept writes.
InitDark ==
    /\ TotpIdle
    /\ wide = NoWide
    /\ dm = [w \in Windows |-> NoManager]
    /\ \E sys \in BOOLEAN, wr \in BOOLEAN :
           store = [NoStore EXCEPT !.systemPrefersDark = sys, !.writable = wr]
    /\ lastOp = NoOp
    /\ everAccepted = FALSE

\* The page's script runs; the frame is loaded inside a loaded top page.
Construct(w) ==
    /\ ~dm[w].loaded
    /\ dm[Parent(w)].loaded \/ w = Parent(w)
    /\ Ran(w, construct(StartRun, w))

\* Lines 253-256: addListener and the function it returns.
AddListener(w, kind) ==
    /\ dm[w].loaded
    /\ RegistersListeners(w)
    /\ ~(kind \in Range(dm[w].listeners))
    /\ dm' = [dm EXCEPT ![w].listeners = Append(@, kind)]
    /\ UNCHANGED << totpVars, wide, store, lastOp, everAccepted >>

RemoveListener(w, kind) ==
    /\ dm[w].loaded
    /\ kind \in Range(dm[w].listeners)
    /\ dm' = [dm EXCEPT ![w].listeners = SelectSeq(@, LAMBDA k : k # kind)]
    /\ UNCHANGED << totpVars, wide, store, lastOp, everAccepted >>

\* The page calls darkModeManager.setTheme(theme).
SetTheme(w, theme) ==
    /\ dm[w].loaded
    /\ Ran(w, setTheme(StartRun, w, theme, MaxDepth))

\* The page calls toggle(), or a registered toggle is clicked (line 223).
Toggle(w) ==
    /\ dm[w].loaded
    /\ Ran(w, toggle(StartRun, w, MaxDepth))

\* The page calls applySavedTheme (line 366 calls it with false).
ApplySavedTheme(w, withTransition) ==
    /\ dm[w].loaded
    /\ Ran(w, applySavedTheme(StartRun, w, withTransition, MaxDepth))

\* A queued storage event of another window's write is delivered.
StorageEvent(w) ==
    /\ dm[w].storageEvent
    /\ Ran(w,
           onStorage([StartRun EXCEPT !.dm[w].storageEvent = FALSE], w,
                     MaxDepth))

\* A queued themeChanged message of the frame is delivered.
MessageEvent(w) ==
    /\ dm[w].message
    /\ Ran(w,
           onMessage([StartRun EXCEPT !.dm[w].message = FALSE], w, MaxDepth))

\* The system colour scheme changes once the change events of the change
\* before have been delivered; every loaded window gets a change event.
SystemChange ==
    /\ \A w \in Windows : ~dm[w].mediaEvent
    /\ store' = [store EXCEPT !.systemPrefersDark = ~@]
    /\ dm' = [w \in Windows |->
                 IF dm[w].loaded THEN [dm[w] EXCEPT !.mediaEvent = TRUE]
                 ELSE dm[w]]
    /\ UNCHANGED << totpVars, wide, lastOp, everAccepted >>

\* The queued change event is delivered; its matches is the scheme the
\* system changed to.
MediaEvent(w) ==
    /\ dm[w].mediaEvent
    /\ Ran(w,
           onSystemTheme([StartRun EXCEPT !.dm[w].mediaEvent = FALSE], w,
                         store.systemPrefersDark, MaxDepth))

\* Lines 175-177: a reset timer fires.
TimerFire(w) ==
    /\ dm[w].timers > 0
    /\ dm' = [dm EXCEPT ![w].timers = @ - 1, ![w].isTransitioning = FALSE]
    /\ UNCHANGED << totpVars, wide, store, lastOp, everAccepted >>

\* Lines 19-21 and 47-144: the style element is added once.
StyleTimerFire(w) ==
    /\ dm[w].styles = "pending"
    /\ dm' = [dm EXCEPT ![w].styles = "added"]
    /\ UNCHANGED << totpVars, wide, store, lastOp, everAccepted >>

NextDark ==
    \/ \E w \in Windows : Construct(w)
    \/ \E w \in Windows, kind \in ListenerKinds : AddListener(w, kind)
    \/ \E w \in Windows, kind \in ListenerKinds : RemoveListener(w, kind)
    \/ \E w \in Windows, theme \in Themes : SetTheme(w, theme)
    \/ \E w \in Windows : Toggle(w)
    \/ \E w \in Windows, withTransition \in BOOLEAN :
           ApplySavedTheme(w, withTransition)
    \/ \E w \in Windows : StorageEvent(w)
    \/ \E w \in Windows : MessageEvent(w)
    \/ SystemChange
    \/ \E w \in Windows : MediaEvent(w)
    \/ \E w \in Windows : TimerFire(w)
    \/ \E w \in Windows : StyleTimerFire(w)

\* A timer that is due fires.
SpecDark ==
    /\ InitDark
    /\ [][NextDark]_vars
    /\ \A w \in Windows : WF_vars(TimerFire(w))

\* At most one reset timer is pending in a window, and exactly while the
\* manager is transitioning unless the accepted call was aborted.
AtMostOneResetTimer ==
    \A w \in Windows :
        /\ dm[w].timers \in 0..1
        /\ dm[w].timers = 1 => dm[w].isTransitioning
        /\ (dm[w].isTransitioning /\ store.writable) => dm[w].timers = 1


(***************************************************************************)
(* Properties of the dark mode utility.  A property of a handler is        *)
(* stated on the runs the handler can make from a reachable state.         *)
(***************************************************************************)
\* The runs of the handlers that apply the saved theme: the constructor,
\* applySavedTheme, and the storage and message handlers.
ApplyingRuns(w) ==
    { R \in
        (IF ~dm[w].loaded /\ (dm[Parent(w)].loaded \/ w = Parent(w))
         THEN { construct(StartRun, w) } ELSE { })
        \cup (IF dm[w].loaded
              THEN { applySavedTheme(StartRun, w, b, MaxDepth) : b \in BOOLEAN }
              ELSE { })
        \cup (IF dm[w].storageEvent
              THEN { onStorage([StartRun EXCEPT !.dm[w].storageEvent = FALSE],
                               w, MaxDepth) }
              ELSE { })
        \cup (IF dm[w].message
              THEN { onMessage([StartRun EXCEPT !.dm[w].message = FALSE],
                               w, MaxDepth) }
              ELSE { }) : R.fits }

\* The runs of setTheme and toggle called by the page.
CallRuns(w) ==
    { R \in
        (IF dm[w].loaded
         THEN { setTheme(StartRun, w, t, MaxDepth) : t \in Themes }
                  \cup { toggle(StartRun, w, MaxDepth) }
         ELSE { }) : R.fits }

\* The runs of the system colour-scheme handler.
MediaRuns(w) ==
    { R \in
        (IF dm[w].mediaEvent
         THEN { onSystemTheme([StartRun EXCEPT !.dm[w].mediaEvent = FALSE], w,
                              store.systemPrefersDark, MaxDepth) }
         ELSE { }) : R.fits }

\* The saved preference resolves to dark.
ResolvesToDark(st) ==
    LET saved == getSavedTheme(st)
    IN  saved = "dark" \/ (saved = "system" /\ st.systemPrefersDark)

\* At the end of run R the root of window w has the class the saved
\* preference asks for.
ClassFollowsSaved(R, w) == R.dm[w].dark <=> ResolvesToDark(R.store)

\* C14 as claimed: at the end of every handler run in a window (constructor,
\* setTheme, toggle, applySavedTheme, storage, message and colour-scheme
\* handlers), accepted or dropped, the root has the "dark" class exactly when
\* the saved preference resolves to dark.  Stated for a storage that accepts
\* writes, so that no run is cut short.
C14_ClassFollowsSavedTheme ==
    store.writable =>
        \A w \in Windows :
            \A R \in ApplyingRuns(w) \cup CallRuns(w) \cup MediaRuns(w) :
                ClassFollowsSaved(R, w)

\* C14 amended: the class follows the saved preference at the end of the
\* constructor, applySavedTheme, the storage and message handlers, and of
\* every setTheme, toggle or colour-scheme run that accepts a setTheme call;
\* a run that only drops the call or does not call setTheme leaves the class
\* as it was.
C14_ClassFollowsSavedThemeWhenApplied ==
    \A w \in Windows :
        /\ \A R \in ApplyingRuns(w) : ClassFollowsSaved(R, w)
        /\ \A R \in CallRuns(w) \cup MediaRuns(w) :
               IF R.accepted > 0 THEN ClassFollowsSaved(R, w)
               ELSE R.dm[w].dark = dm[w].dark

\* The frame has just accepted a theme that the top page, itself in a
\* transition, has not applied yet.
C14_Witness ==
    /\ lastOp = [w |-> "frame", accepted |-> 1, dropped |-> 0]
    /\ dm["frame"].timers = 1
    /\ dm["frame"].dark /\ ResolvesToDark(store)
    /\ dm["top"].isTransitioning /\ ~dm["top"].dark
    /\ dm["top"].storageEvent


\* C15: after every accepted setTheme call isTransitioning eventually
\* returns to false, so the manager never stays locked.
C15_TransitionEnds ==
    \A w \in Windows : dm[w].isTransitioning ~> ~dm[w].isTransitioning

\* The same while localStorage accepts writes: the reset timer has been
\* scheduled and fires.
TransitionEndsWhenStorageWritable ==
    \A w \in Windows :
        (dm[w].isTransitioning /\ store.writable) ~> ~dm[w].isTransitioning

\* The manager of the top page is locked with no reset timer pending.
LockedForever ==
    /\ dm["top"].isTransitioning
    /\ dm["top"].timers = 0


\* C16: a setTheme or toggle call made while isTransitioning is true leaves
\* everything unchanged: the dark class, the darkMode cookie, the
\* localStorage theme, the meta theme-color and isTransitioning, in this and
\* in every other window; no listener is called, no storage event is
\* dispatched or queued, no message is posted, no timer is scheduled and
\* nothing is thrown.
C16_DroppedCallChangesNothing ==
    \A w \in Windows :
        (dm[w].loaded /\ dm[w].isTransitioning) =>
            \A R \in { setTheme(StartRun, w, t, MaxDepth) : t \in Themes }
                         \cup { toggle(StartRun, w, MaxDepth) } :
                /\ R.dm = dm
                /\ R.store = store
                /\ R.calls = NoCalls
                /\ R.dispatched = 0
                /\ R.posted = 0
                /\ R.accepted = 0
                /\ R.dropped = 1
                /\ ~R.thrown /\ ~R.overflow /\ R.fits

\* A call of the page has just been dropped in the top window, which has
\* listeners, while the saved theme is not the one on the page.
C16_Witness ==
    /\ lastOp = [w |-> "top", accepted |-> 0, dropped |-> 1]
    /\ dm["top"].isTransitioning
    /\ dm["top"].timers = 1
    /\ dm["top"].listeners = << "reenter", "throws" >>
    /\ dm["top"].dark /\ ~ResolvesToDark(store)


\* Each registered listener of window w has been called exactly once in run
\* R, and no other.
EachListenerOnce(R, w) ==
    \A k \in ListenerKinds :
        R.calls[k] = IF k \in Range(dm[w].listeners) THEN 1 ELSE 0

\* Run R of a setTheme call in window w ends, accepts that call only,
\* calls every listener once and drops the calls the listeners make.
OneNotificationEach(R, w) ==
    /\ ~R.overflow
    /\ R.accepted = 1
    /\ EachListenerOnce(R, w)
    /\ R.dropped = IF "reenter" \in Range(dm[w].listeners) THEN 1 ELSE 0

\* Run R went through all of setTheme: nothing was thrown, the storage
\* event was dispatched once to the own window and only re-applied the
\* class, and one reset timer is scheduled.
RanToTheEnd(R, w, theme) ==
    /\ ~R.thrown
    /\ R.dispatched = 1
    /\ R.dm[w].timers = 1
    /\ R.dm[w].dark = (theme = "dark")

\* C17: one accepted setTheme call notifies each registered listener exactly
\* once and terminates; the storage event it dispatches to its own window
\* and a listener that calls toggle from its callback cause no further
\* accepted call and no repeated notification.
C17_EachListenerNotifiedOnce ==
    \A w \in Windows :
        (dm[w].loaded /\ ~dm[w].isTransitioning) =>
            \A theme \in Themes :
                OneNotificationEach(setTheme(StartRun, w, theme, MaxDepth), w)

\* The same while localStorage accepts writes.
EachListenerNotifiedOnceWhenStorageWritable ==
    \A w \in Windows :
        (dm[w].loaded /\ ~dm[w].isTransitioning /\ store.writable) =>
            \A theme \in Themes :
                LET R == setTheme(StartRun, w, theme, MaxDepth)
                IN  OneNotificationEach(R, w) /\ RanToTheEnd(R, w, theme)


\* The cookie and localStorage hold the explicit value of one accepted call.
ExplicitPreference(st) ==
    /\ getSavedTheme(st) # "system"
    /\ st.cookie \in { "true", "false" }
    /\ st.theme \in Themes
    /\ st.cookie = "true" <=> st.theme = "dark"

\* A system colour-scheme change delivered to window w changes nothing but
\* the event queue.
SystemChangeIgnored(w) ==
    \A R \in MediaRuns(w) :
        /\ R.store = store
        /\ R.dm = [dm EXCEPT ![w].mediaEvent = FALSE]
        /\ R.accepted = 0 /\ R.dropped = 0

\* C18: once a setTheme call has been accepted, getSavedTheme never returns
\* "system" again: the cookie and localStorage hold an explicit value, the
\* cookie being "true" exactly when the stored theme is "dark", and every
\* later system colour-scheme change leaves the theme unchanged.
C18_ExplicitPreferenceStays ==
    everAccepted =>
        /\ ExplicitPreference(store)
        /\ \A w \in Windows : SystemChangeIgnored(w)

\* The same while localStorage accepts writes.
ExplicitPreferenceStaysWhenStorageWritable ==
    (everAccepted /\ store.writable) =>
        /\ ExplicitPreference(store)
        /\ \A w \in Windows : SystemChangeIgnored(w)

\* Whatever the storage does, an accepted call writes the cookie, so the
\* saved theme is no longer "system" and a system change is ignored.
SavedThemeNeverSystemAgain ==
    everAccepted =>
        /\ getSavedTheme(store) # "system"
        /\ \A w \in Windows : SystemChangeIgnored(w)

====
